---- MODULE Spec2Model ----
(***************************************************************************)
(* A model of places_client.PlacesClient                                   *)
(* (src/src/places_client/places_client.py): the two loaders               *)
(* (get_measure_list, get_county_data) with the fetch they perform, the    *)
(* record normaliser (_json_to_df), the table filter (filter_by_measures)  *)
(* and the correlation (get_correlation).                                  *)
(*                                                                         *)
(* A pandas DataFrame is a record [columns, rows]: the set of its column   *)
(* names and the sequence of its rows, each a function from the columns to *)
(* cell values.  A cell value is a record [t, s, n]: a string (t = "str"), *)
(* a number (t = "num", n in tenths), Python's None (t = "none") or the    *)
(* missing-value marker NaN (t = "nan").                                   *)
(***************************************************************************)
EXTENDS Integers, Sequences, FiniteSets, TLC

VARIABLES pc, op, release, url, fetchCount, fetchOutcome, log, data, df,
          result, error, heap, criteria, dfRef, resRef, input, corrArgs

vars == <<pc, op, release, url, fetchCount, fetchOutcome, log, data, df,
          result, error, heap, criteria, dfRef, resRef, input, corrArgs>>

----------------------------------------------------------------------------
(* Bounds of the model.                                                    *)

\* longest sequence of raw records a fetch returns
MaxRecords == 2

----------------------------------------------------------------------------
(* Cell values.                                                            *)

Str(s) == [t |-> "str", s |-> s, n |-> 0]
Num(n) == [t |-> "num", s |-> "", n |-> n]
None == [t |-> "none", s |-> "", n |-> 0]
NaN == [t |-> "nan", s |-> "", n |-> 0]
\* a Python int, written with its digits
PyInt(s) == [t |-> "int", s |-> s, n |-> 0]

\* pandas isna(): None and NaN are both missing values
isna(v) == v.t \in {"none", "nan"}

\* isinstance(v, str)
IsStr(v) == v.t = "str"

\* the strings of the model that Python's float() parses, with their value
\* in tenths
NumericLiterals == [s \in {"3.7", "10"} |-> IF s = "3.7" THEN 37 ELSE 100]

NoTable == [columns |-> {"<none>"}, rows |-> <<>>]

----------------------------------------------------------------------------
(* PlacesClient.__init__ and the routing tables.                           *)

base_url == "https://data.cdc.gov/api/v3/views/"

data_dictionary_id == "m35w-spkz"

release_ids == [r \in {"2025", "2024", "2023", "2022", "2021", "2020"} |->
                  CASE r = "2025" -> "swc5-untb"
                    [] r = "2024" -> "fu4u-a9bh"
                    [] r = "2023" -> "h3ej-a9ec"
                    [] r = "2022" -> "duw2-7jbt"
                    [] r = "2021" -> "pqpp-u99h"
                    [] r = "2020" -> "dv4u-3x3q"]

Endpoint(id) == base_url \o id \o "/query.json"

----------------------------------------------------------------------------
(* _json_to_df                                                             *)

\* pd.DataFrame(data) on a list of dicts: the columns are the keys that
\* occur, a key a record lacks is filled with NaN
DataFrame(records) ==
    LET cols == UNION {DOMAIN records[i] : i \in 1..Len(records)}
    IN [columns |-> cols,
        rows |-> [i \in 1..Len(records) |->
                    [c \in cols |-> IF c \in DOMAIN records[i]
                                    THEN records[i][c] ELSE NaN]]]

\* the drop list with the colon of ':id' forgotten
metadata_cols_typo == {"id", ":version", ":created_at", ":updated_at",
                       "data_value_footnote_symbol", "data_value_footnote"}

metadata_cols == {":id", ":version", ":created_at", ":updated_at",
                  "data_value_footnote_symbol", "data_value_footnote"}

\* df.drop(labels, axis=1, errors='ignore')
drop(t, labels) ==
    [columns |-> t.columns \ labels,
     rows |-> [i \in 1..Len(t.rows) |->
                 [c \in t.columns \ labels |-> t.rows[i][c]]]]

numeric_cols == {"data_value", "low_confidence_limit",
                 "high_confidence_limit", "totalpopulation"}

\* pd.to_numeric on one value (errors='raise'): a number stays, a missing
\* value and the empty string become NaN, a string is parsed
Parses(v) ==
    \/ v.t \in {"num", "none", "nan"}
    \/ v.t = "str" /\ (v.s = "" \/ v.s \in DOMAIN NumericLiterals)

to_numeric(v) ==
    CASE v.t = "num" -> v
      [] v.t = "str" /\ v.s \in DOMAIN NumericLiterals -> Num(NumericLiterals[v.s])
      [] OTHER -> NaN

\* the columns the loop of lines 36-38 converts
ConvertedCols(t) == numeric_cols \cap t.columns

\* the conversion raises ValueError when a value of a converted column
\* does not parse
JsonToDfRaises(records) ==
    LET t == drop(DataFrame(records), metadata_cols)
    IN \E i \in 1..Len(t.rows) : \E c \in ConvertedCols(t) : ~Parses(t.rows[i][c])

_json_to_df(records) ==
    LET t == drop(DataFrame(records), metadata_cols)
    IN [columns |-> t.columns,
        rows |-> [i \in 1..Len(t.rows) |->
                    [c \in t.columns |-> IF c \in ConvertedCols(t)
                                         THEN to_numeric(t.rows[i][c])
                                         ELSE t.rows[i][c]]]]

----------------------------------------------------------------------------
(* Row selection.                                                          *)

\* df[df[col].isin(values)]: the rows whose col is in values, in order
isin(t, col, values) ==
    [columns |-> t.columns,
     rows |-> SelectSeq(t.rows, LAMBDA r : r[col].t = "str" /\ r[col].s \in values)]

\* df.dropna(subset=[col]).reset_index(drop=True)
dropna(t, col) ==
    [columns |-> t.columns,
     rows |-> SelectSeq(t.rows, LAMBDA r : ~isna(r[col]))]

covered_categories == {"HLTHOUT", "RISKBEH"}

----------------------------------------------------------------------------
(* What the upstream API may answer.                                       *)

\* the values a county record carries as data_value: none at all (the API
\* omits the key), null, a decimal string, the empty string, a footnote text
DataValues == {NaN, None, Str("3.7"), Str(""), Str("n/a")}

CategoryIds == {"HLTHOUT", "RISKBEH", "PREVENT"}

CountyRecord(cat, dv) ==
    (":id" :> Str("row-wxyz")) @@ ("locationid" :> Str("55039"))
       @@ ("categoryid" :> Str(cat))
       @@ (IF dv = NaN THEN <<>> ELSE ("data_value" :> dv))

CountyRecords == {CountyRecord(cat, dv) : cat \in CategoryIds, dv \in DataValues}

\* the data dictionary: measureid, short name, full name, category name, id
Dictionary ==
    {<<"CHD", "Coronary Heart Disease", "Coronary heart disease among adults",
       "Health Outcomes", "HLTHOUT">>,
     <<"BINGE", "Binge Drinking", "Binge drinking among adults",
       "Health Risk Behaviors", "RISKBEH">>,
     <<"DENTAL", "Dental Visit", "Visited dentist in the past year",
       "Prevention", "PREVENT">>}

DictionaryRecord(m, meta) ==
    ("measureid" :> Str(m[1])) @@ ("measure_short_name" :> Str(m[2]))
       @@ ("measure_full_name" :> Str(m[3])) @@ ("category_name" :> Str(m[4]))
       @@ ("categoryid" :> Str(m[5]))
       @@ (IF meta THEN (":updated_at" :> Str("2025-01-01")) ELSE <<>>)

DictionaryRecords == {DictionaryRecord(m, meta) : m \in Dictionary, meta \in BOOLEAN}

SeqsUpTo(S, n) == UNION {[1..k -> S] : k \in 0..n}

\* response.json() of a successful request to u
Responses(u) ==
    IF u = Endpoint(data_dictionary_id)
    THEN SeqsUpTo(DictionaryRecords, MaxRecords)
    ELSE SeqsUpTo(CountyRecords, MaxRecords)

\* the values a caller passes as release
Releases == {Str(r) : r \in DOMAIN release_ids}
            \cup {Str("2019"), Str(""), PyInt("2025"), None}

----------------------------------------------------------------------------
(* The state after construction, and the return to the caller.             *)

Init ==
    /\ pc = "idle"
    /\ op = ""
    /\ release = None
    /\ url = ""
    /\ fetchCount = 0
    /\ fetchOutcome = ""
    /\ log = <<>>
    /\ data = <<>>
    /\ df = NoTable
    /\ result = NoTable
    /\ error = ""
    /\ heap = <<>>
    /\ criteria = <<>>
    /\ dfRef = 0
    /\ resRef = 0
    /\ input = NoTable
    /\ corrArgs = <<>>

LoadVars == <<op, release, url, fetchCount, fetchOutcome, log, data, df>>
TableVars == <<heap, criteria, dfRef, resRef, input, corrArgs>>

\* the operation is over: the caller has its table or its exception
Return ==
    /\ pc \in {"returned", "raised", "mutated"}
    /\ pc' = "idle"
    /\ op' = ""
    /\ release' = None
    /\ url' = ""
    /\ fetchCount' = 0
    /\ fetchOutcome' = ""
    /\ log' = <<>>
    /\ data' = <<>>
    /\ df' = NoTable
    /\ result' = NoTable
    /\ error' = ""
    /\ heap' = <<>>
    /\ criteria' = <<>>
    /\ dfRef' = 0
    /\ resRef' = 0
    /\ input' = NoTable
    /\ corrArgs' = <<>>

----------------------------------------------------------------------------
(* _make_request                                                           *)

\* _make_request with a retry: a failed request is sent again
make_request_retry ==
    /\ pc = "request"
    /\ fetchCount' = fetchCount + 1
    /\ \/ /\ \E d \in Responses(url) : data' = d
          /\ fetchOutcome' = "ok"
          /\ pc' = "response"
          /\ UNCHANGED <<log, error>>
       \/ /\ \E e \in {"HTTPError", "ConnectionError"} : fetchOutcome' = e
          /\ log' = Append(log, "API Error")
          /\ pc' = "request"
          /\ UNCHANGED <<data, error>>
    /\ UNCHANGED <<op, release, url, df, result>>
    /\ UNCHANGED <<heap, criteria, dfRef, resRef, input, corrArgs>>

\* one session.get: the JSON of a 2xx answer, an HTTPError that is printed
\* and raised again, or any other exception of the transport, which the
\* except clause does not catch
_make_request ==
    /\ pc = "request"
    /\ fetchCount' = fetchCount + 1
    /\ \/ /\ \E d \in Responses(url) : data' = d
          /\ fetchOutcome' = "ok"
          /\ pc' = "response"
          /\ UNCHANGED <<log, error>>
       \/ /\ fetchOutcome' = "HTTPError"
          /\ log' = Append(log, "API Error")
          /\ error' = "HTTPError"
          /\ pc' = "raised"
          /\ UNCHANGED data
       \/ /\ fetchOutcome' = "ConnectionError"
          /\ error' = "ConnectionError"
          /\ pc' = "raised"
          /\ UNCHANGED <<log, data>>
    /\ UNCHANGED <<op, release, url, df, result>>
    /\ UNCHANGED TableVars

\* lines 64 and 106: the loader normalises what the fetch returned
json_to_df_step ==
    /\ pc = "response"
    /\ IF JsonToDfRaises(data)
       THEN /\ pc' = "raised"
            /\ error' = "ValueError"
            /\ UNCHANGED df
       ELSE /\ pc' = "normalized"
            /\ df' = _json_to_df(data)
            /\ UNCHANGED error
    /\ UNCHANGED <<op, release, url, fetchCount, fetchOutcome, log, data, result>>
    /\ UNCHANGED TableVars

----------------------------------------------------------------------------
(* get_county_data                                                         *)

\* the check with the release turned into a string instead of tested for
\* being one
release_check_coerced(rel) ==
    IF rel.s \notin DOMAIN release_ids THEN "ValueError" ELSE "ok"

\* lines 98-103: the check of the argument
ReleaseCheck(rel) ==
    IF ~IsStr(rel) THEN "TypeError"
    ELSE IF rel.s \notin DOMAIN release_ids THEN "ValueError"
    ELSE "ok"

get_county_data_call(rel) ==
    /\ pc = "idle"
    /\ op' = "get_county_data"
    /\ release' = rel
    /\ IF ReleaseCheck(rel) = "ok"
       THEN /\ url' = Endpoint(release_ids[rel.s])
            /\ pc' = "request"
            /\ UNCHANGED error
       ELSE /\ error' = ReleaseCheck(rel)
            /\ pc' = "raised"
            /\ UNCHANGED url
    /\ UNCHANGED <<fetchCount, fetchOutcome, log, data, df, result>>
    /\ UNCHANGED TableVars

\* the selection without the dropna of line 113
county_rows_keep_missing(t) == isin(t, "categoryid", covered_categories)

\* lines 109-113 on a table that has both columns
county_rows(t) == dropna(isin(t, "categoryid", covered_categories), "data_value")

\* a column the table lacks makes the selection raise KeyError
get_county_data_filter ==
    /\ pc = "normalized"
    /\ op = "get_county_data"
    /\ IF {"categoryid", "data_value"} \subseteq df.columns
       THEN /\ result' = county_rows(df)
            /\ pc' = "returned"
            /\ UNCHANGED error
       ELSE /\ error' = "KeyError"
            /\ pc' = "raised"
            /\ UNCHANGED result
    /\ UNCHANGED LoadVars
    /\ UNCHANGED TableVars

----------------------------------------------------------------------------
(* get_measure_list                                                        *)

get_measure_list_call ==
    /\ pc = "idle"
    /\ op' = "get_measure_list"
    /\ url' = Endpoint(data_dictionary_id)
    /\ pc' = "request"
    /\ UNCHANGED <<release, fetchCount, fetchOutcome, log, data, df, result, error>>
    /\ UNCHANGED TableVars

\* line 66 and line 67: the selected columns, and the names they are given
measure_columns == <<"measureid", "measure_short_name", "measure_full_name", "category_name">>
measure_names == <<"id", "short_name", "full_name", "category">>

Range(s) == {s[i] : i \in 1..Len(s)}

\* lines 65-67 on a table that has the five columns
measure_rows(t) ==
    LET kept == isin(t, "categoryid", covered_categories)
    IN [columns |-> Range(measure_names),
        rows |-> [i \in 1..Len(kept.rows) |->
                    [c \in Range(measure_names) |->
                       kept.rows[i][measure_columns[
                          CHOOSE k \in 1..Len(measure_names) : measure_names[k] = c]]]]]

get_measure_list_project ==
    /\ pc = "normalized"
    /\ op = "get_measure_list"
    /\ IF ({"categoryid"} \cup Range(measure_columns)) \subseteq df.columns
       THEN /\ result' = measure_rows(df)
            /\ pc' = "returned"
            /\ UNCHANGED error
       ELSE /\ error' = "KeyError"
            /\ pc' = "raised"
            /\ UNCHANGED result
    /\ UNCHANGED LoadVars
    /\ UNCHANGED TableVars

NextLoad ==
    \/ \E rel \in Releases : get_county_data_call(rel)
    \/ get_measure_list_call
    \/ _make_request
    \/ json_to_df_step
    \/ get_county_data_filter
    \/ get_measure_list_project
    \/ Return

SpecLoad == Init /\ [][NextLoad]_vars

----------------------------------------------------------------------------
(* filter_by_measures                                                      *)

\* longest table handed to filter_by_measures
MaxTableRows == 3

\* an optional list argument: None when omitted, else the values listed
Omitted == [given |-> FALSE, values |-> {}]
List(S) == [given |-> TRUE, values |-> S]

\* Python's truth value of the argument: None and the empty list are false
Truthy(c) == c.given /\ c.values # {}

\* DataFrames are objects: heap is the sequence of the objects allocated,
\* a reference is an index into it.  A boolean selection allocates a new
\* DataFrame, a plain assignment copies the reference.
Narrow(st, crit, col) ==
    IF Truthy(crit)
    THEN [heap |-> Append(st.heap, isin(st.heap[st.ref], col, crit.values)),
          ref |-> Len(st.heap) + 1]
    ELSE st

filter_by_measures(h, ref, measures, categories, measure_ids) ==
    Narrow(Narrow(Narrow([heap |-> h, ref |-> ref],
                         measures, "short_question_text"),
                  categories, "category"),
           measure_ids, "measureid")

\* the rows of the tables filtered: measureid, short_question_text,
\* category, data_value
MeasureRows ==
    {<<"CHD", "Coronary Heart Disease", "Health Outcomes", 100>>,
     <<"DIABETES", "diabetes", "Health Outcomes", 200>>,
     <<"BINGE", "Binge Drinking", "Health Risk Behaviors", 300>>}

MeasureRow(m) ==
    ("measureid" :> Str(m[1])) @@ ("short_question_text" :> Str(m[2]))
       @@ ("category" :> Str(m[3])) @@ ("data_value" :> Num(m[4]))

MeasureTables ==
    {[columns |-> {"measureid", "short_question_text", "category", "data_value"},
      rows |-> [i \in 1..Len(ms) |-> MeasureRow(ms[i])]] :
        ms \in SeqsUpTo(MeasureRows, MaxTableRows)}

Optional(S) == {Omitted} \cup {List(v) : v \in SUBSET S}

MeasuresArgs == Optional({"CHD", "Coronary Heart Disease", "diabetes"})
CategoriesArgs == Optional({"Health Outcomes", "Health Risk Behaviors"})
MeasureIdsArgs == Optional({"CHD", "BINGE"})

filter_by_measures_call ==
    /\ pc = "idle"
    /\ \E t \in MeasureTables, m \in MeasuresArgs, c \in CategoriesArgs,
          ids \in MeasureIdsArgs :
          LET st == filter_by_measures(<<t>>, 1, m, c, ids)
          IN /\ heap' = st.heap
             /\ resRef' = st.ref
             /\ input' = t
             /\ criteria' = [measures |-> m, categories |-> c, measure_ids |-> ids]
    /\ dfRef' = 1
    /\ op' = "filter_by_measures"
    /\ pc' = "returned"
    /\ UNCHANGED <<release, url, fetchCount, fetchOutcome, log, data, df,
                   result, error, corrArgs>>

\* the caller modifies the table it was returned, in place
\* (sub_df['flag'] = 0)
MutateResult ==
    /\ pc = "returned"
    /\ op = "filter_by_measures"
    /\ heap' = [heap EXCEPT ![resRef] =
                  [columns |-> @.columns \cup {"flag"},
                   rows |-> [i \in 1..Len(@.rows) |-> @.rows[i] @@ ("flag" :> Num(0))]]]
    /\ pc' = "mutated"
    /\ UNCHANGED <<op, release, url, fetchCount, fetchOutcome, log, data, df,
                   result, error, criteria, dfRef, resRef, input, corrArgs>>

NextFilter ==
    \/ filter_by_measures_call
    \/ MutateResult
    \/ Return

SpecFilter == Init /\ [][NextFilter]_vars

----------------------------------------------------------------------------
(* Arithmetic of get_correlation: pandas computes in floating point; the   *)
(* model computes the same quantities exactly, as fractions <<n, d>> in    *)
(* lowest terms with d > 0.  A float is a record [nan, q].                 *)

Abs(n) == IF n < 0 THEN -n ELSE n

RECURSIVE Gcd(_, _)
Gcd(a, b) == IF b = 0 THEN a ELSE Gcd(b, a % b)

Rat(n, d) == LET g == Gcd(Abs(n), d) IN <<n \div g, d \div g>>
RAdd(p, q) == Rat(p[1] * q[2] + q[1] * p[2], p[2] * q[2])
RSub(p, q) == Rat(p[1] * q[2] - q[1] * p[2], p[2] * q[2])
RMul(p, q) == Rat(p[1] * q[1], p[2] * q[2])

Float(q) == [nan |-> FALSE, q |-> q]
FloatNaN == [nan |-> TRUE, q |-> <<0, 1>>]

\* the sum of the function f over the finite set S
RECURSIVE RSum(_, _)
RSum(S, f) ==
    IF S = {} THEN <<0, 1>>
    ELSE LET e == CHOOSE e \in S : TRUE IN RAdd(f[e], RSum(S \ {e}, f))

RECURSIVE SeqSum(_)
SeqSum(ns) == IF ns = <<>> THEN 0 ELSE Head(ns) + SeqSum(Tail(ns))

\* Series.mean(): NaN on an empty series
Mean(S, f) ==
    IF S = {} THEN FloatNaN ELSE Float(RMul(RSum(S, f), <<1, Cardinality(S)>>))

----------------------------------------------------------------------------
(* get_correlation                                                         *)

\* most rows of a table handed to get_correlation
MaxCorrRows == 4

\* sub_df.pivot_table(values='data_value', index=idx, columns='measureid'):
\* a cell is the mean of the values of its group that are not missing
\* (aggfunc='mean'); a group, a row or a column with no value is dropped
pivot_table(t, idx) ==
    LET vals(k, m) == SelectSeq(t.rows, LAMBDA r :
                         r[idx] = k /\ r["measureid"] = m /\ ~isna(r["data_value"]))
        valued == SelectSeq(t.rows, LAMBDA r : ~isna(r["data_value"]))
        keys == {valued[i][idx] : i \in 1..Len(valued)}
        cols == {valued[i]["measureid"].s : i \in 1..Len(valued)}
    IN [index |-> keys,
        columns |-> cols,
        cells |-> [k \in keys |-> [m \in cols |->
                     IF vals(k, Str(m)) = <<>> THEN FloatNaN
                     ELSE Float(Rat(SeqSum([i \in 1..Len(vals(k, Str(m))) |->
                                              vals(k, Str(m))[i]["data_value"].n]),
                                    Len(vals(k, Str(m)))))]]]

\* table.dropna(): the rows with a value in every column
pivot_dropna(p) ==
    [index |-> {k \in p.index : \A m \in p.columns : ~p.cells[k][m].nan},
     columns |-> p.columns,
     cells |-> p.cells]

\* table[x].corr(table[y], method='pearson'): NaN when a variance is zero,
\* which it is on fewer than two rows; else the sign of r and r squared
corr(p, x, y) ==
    LET S == p.index
        n == <<Cardinality(S), 1>>
        X == [k \in S |-> p.cells[k][x].q]
        Y == [k \in S |-> p.cells[k][y].q]
        XY == [k \in S |-> RMul(X[k], Y[k])]
        XX == [k \in S |-> RMul(X[k], X[k])]
        YY == [k \in S |-> RMul(Y[k], Y[k])]
        cov == RSub(RMul(n, RSum(S, XY)), RMul(RSum(S, X), RSum(S, Y)))
        vx == RSub(RMul(n, RSum(S, XX)), RMul(RSum(S, X), RSum(S, X)))
        vy == RSub(RMul(n, RSum(S, YY)), RMul(RSum(S, Y), RSum(S, Y)))
    IN IF vx[1] = 0 \/ vy[1] = 0
       THEN [nan |-> TRUE, sign |-> 0, square |-> <<0, 1>>]
       ELSE [nan |-> FALSE,
             sign |-> IF cov[1] > 0 THEN 1 ELSE IF cov[1] < 0 THEN -1 ELSE 0,
             square |-> Rat(cov[1] * cov[1] * vx[2] * vy[2],
                            cov[2] * cov[2] * vx[1] * vy[1])]

\* the column the pivot of line 186 is indexed by
correlation_index == "locationname"

\* lines 184-187
correlation_table(t, x, y) ==
    LET st == filter_by_measures(<<t>>, 1, Omitted, Omitted, List({x, y}))
    IN pivot_dropna(pivot_table(st.heap[st.ref], correlation_index))

\* lines 179-182: the check of the arguments
MeasureCheck(x, y) ==
    IF x = None \/ y = None THEN "ValueError"
    ELSE IF ~IsStr(x) \/ ~IsStr(y) THEN "TypeError"
    ELSE "ok"

\* lines 188-196 on a pivot that has both columns
correlation_result(p, x, y) ==
    LET X == [k \in p.index |-> p.cells[k][x].q]
        Y == [k \in p.index |-> p.cells[k][y].q]
    IN [corr_coef |-> corr(p, x, y),
        sample_size |-> Cardinality(p.index),
        mean_x |-> Mean(p.index, X),
        mean_y |-> Mean(p.index, Y)]

\* the counties of the tables correlated: locationid, locationname
Counties == <<(<<"01001", "Autauga">>), (<<"42125", "Washington">>),
              (<<"55131", "Washington">>)>>

\* one slot for each county and each of the measures X and Y
CorrSlots == [i \in 1..(2 * Len(Counties)) |->
                <<Counties[(i + 1) \div 2], IF i % 2 = 1 THEN "X" ELSE "Y">>]

\* a slot holds no row, a row without a value, or a row with a value
SlotValues == {"absent", "nan", "1.0", "3.0"}

CorrRow(slot, v) ==
    ("locationid" :> Str(slot[1][1])) @@ ("locationname" :> Str(slot[1][2]))
       @@ ("measureid" :> Str(slot[2]))
       @@ ("data_value" :> IF v = "nan" THEN NaN
                           ELSE IF v = "1.0" THEN Num(10) ELSE Num(30))

\* the tables with at most one row for a county and a measure, the rows in
\* the order of the counties
CorrTables ==
    {[columns |-> {"locationid", "locationname", "measureid", "data_value"},
      rows |-> LET used == SelectSeq([i \in 1..Len(CorrSlots) |-> i],
                                     LAMBDA i : f[i] # "absent")
               IN [j \in 1..Len(used) |-> CorrRow(CorrSlots[used[j]], f[used[j]])]] :
        f \in {g \in [1..Len(CorrSlots) -> SlotValues] :
                 Cardinality({i \in 1..Len(CorrSlots) : g[i] # "absent"}) <= MaxCorrRows}}

MeasureArgs == {Str("X"), Str("Y"), Str("Z"), None, PyInt("7")}

get_correlation_call ==
    /\ pc = "idle"
    /\ \E t \in CorrTables, x \in MeasureArgs, y \in MeasureArgs :
          /\ input' = t
          /\ corrArgs' = <<x, y>>
          /\ IF MeasureCheck(x, y) # "ok"
             THEN /\ error' = MeasureCheck(x, y)
                  /\ pc' = "raised"
                  /\ UNCHANGED result
             ELSE LET p == correlation_table(t, x.s, y.s)
                  IN IF {x.s, y.s} \subseteq p.columns
                     THEN /\ result' = correlation_result(p, x.s, y.s)
                          /\ pc' = "returned"
                          /\ UNCHANGED error
                     ELSE /\ error' = "KeyError"
                          /\ pc' = "raised"
                          /\ UNCHANGED result
    /\ op' = "get_correlation"
    /\ UNCHANGED <<release, url, fetchCount, fetchOutcome, log, data, df,
                   heap, criteria, dfRef, resRef>>

NextCorr ==
    \/ get_correlation_call
    \/ Return

SpecCorr == Init /\ [][NextCorr]_vars

----------------------------------------------------------------------------
Next ==
    \/ \E rel \in Releases : get_county_data_call(rel)
    \/ get_measure_list_call
    \/ _make_request
    \/ json_to_df_step
    \/ get_county_data_filter
    \/ get_measure_list_project
    \/ filter_by_measures_call
    \/ MutateResult
    \/ get_correlation_call
    \/ Return

Spec == Init /\ [][Next]_vars

----------------------------------------------------------------------------
(* The claims about the loaders, checked under SpecLoad.                   *)

SupportedReleases == {"2020", "2021", "2022", "2023", "2024", "2025"}

\* C1: get_county_data called with a release that is not a string, or with
\* a string that is not one of the six supported years, ends in an
\* invalid-argument error (TypeError or ValueError), and no fetch is made
\* in that execution.
C1_InvalidReleaseRaisesBeforeFetch ==
    (op = "get_county_data" /\ ~(release.t = "str" /\ release.s \in SupportedReleases))
       => /\ pc = "raised"
          /\ error \in {"TypeError", "ValueError"}
          /\ fetchCount = 0
          /\ fetchOutcome = ""
          /\ result = NoTable

C1_Witness ==
    /\ op = "get_county_data"
    /\ pc = "raised"
    /\ release = Str("2019")
    /\ error = "ValueError"
    /\ fetchCount = 0

\* an upstream value that is null: no key, null, or blank
UpstreamNull(rec, col) ==
    \/ col \notin DOMAIN rec
    \/ rec[col].t \in {"none", "nan"}
    \/ rec[col] = Str("")

Qualifies(rec) ==
    /\ "categoryid" \in DOMAIN rec
    /\ rec["categoryid"] \in {Str("HLTHOUT"), Str("RISKBEH")}
    /\ ~UpstreamNull(rec, "data_value")

\* the positions of the upstream records that qualify, ascending
Qualifying == SelectSeq([i \in 1..Len(data) |-> i], LAMBDA i : Qualifies(data[i]))

\* C2: every row of the table get_county_data returns has categoryid
\* HLTHOUT or RISKBEH and a data_value that is not null, and the rows are
\* the upstream records of a covered category with a data_value, none
\* missing, in upstream order.
C2_CountyRowsCoveredAndComplete ==
    (op = "get_county_data" /\ pc = "returned")
       => /\ \A i \in 1..Len(result.rows) :
                /\ result.rows[i]["categoryid"] \in {Str("HLTHOUT"), Str("RISKBEH")}
                /\ result.rows[i]["data_value"].t = "num"
          /\ Len(result.rows) = Len(Qualifying)
          /\ \A k \in 1..Len(Qualifying) :
                /\ result.rows[k]["categoryid"] = data[Qualifying[k]]["categoryid"]
                /\ result.rows[k]["locationid"] = data[Qualifying[k]]["locationid"]

C2_Witness ==
    /\ op = "get_county_data"
    /\ pc = "returned"
    /\ Len(data) = 2
    /\ data[1]["categoryid"] = Str("PREVENT")
    /\ data[2]["categoryid"] = Str("RISKBEH")
    /\ Len(result.rows) = 1
    /\ result.rows[1]["data_value"] = Num(37)

\* C7: when _json_to_df succeeds, its table has none of the six metadata
\* columns, every value of data_value, low_confidence_limit,
\* high_confidence_limit and totalpopulation is a number or null, and every
\* other column holds the values of the records (NaN where a record has
\* none), row for row.
C7_NormalizedTable ==
    pc = "normalized"
       => /\ df.columns = (UNION {DOMAIN data[i] : i \in 1..Len(data)})
                             \ {":id", ":version", ":created_at", ":updated_at",
                                "data_value_footnote_symbol", "data_value_footnote"}
          /\ Len(df.rows) = Len(data)
          /\ \A i \in 1..Len(df.rows) : \A c \in df.columns :
                IF c \in {"data_value", "low_confidence_limit",
                          "high_confidence_limit", "totalpopulation"}
                THEN /\ df.rows[i][c].t \in {"num", "nan", "none"}
                     /\ (c \in DOMAIN data[i] /\ data[i][c].t = "str"
                            /\ data[i][c].s \in DOMAIN NumericLiterals)
                          => df.rows[i][c] = Num(NumericLiterals[data[i][c].s])
                ELSE df.rows[i][c] = IF c \in DOMAIN data[i] THEN data[i][c] ELSE NaN

C7_Witness ==
    /\ pc = "normalized"
    /\ op = "get_county_data"
    /\ Len(data) = 2
    /\ {":id", "data_value"} \subseteq DOMAIN data[1]
    /\ data[1]["data_value"] = Str("3.7")
    /\ df.rows[1]["data_value"] = Num(37)
    /\ "data_value" \notin DOMAIN data[2]
    /\ df.rows[2]["locationid"] = Str("55039")

\* C8: in an execution of get_measure_list or get_county_data the fetch is
\* invoked at most once, and when that invocation fails the operation ends
\* with its error: no second invocation, no table.
C8_AtMostOneFetchNoRetry ==
    /\ fetchCount <= 1
    /\ pc \in {"response", "normalized", "returned"} =>
          fetchCount = 1 /\ fetchOutcome = "ok"
    /\ fetchOutcome \in {"HTTPError", "ConnectionError"} =>
          /\ fetchCount = 1
          /\ pc = "raised"
          /\ error = fetchOutcome
          /\ result = NoTable

C8_Witness ==
    /\ op = "get_measure_list"
    /\ fetchOutcome = "HTTPError"
    /\ fetchCount = 1
    /\ pc = "raised"

\* the catalogue row of an upstream record
CatalogueRow(rec) ==
    ("id" :> rec["measureid"]) @@ ("short_name" :> rec["measure_short_name"])
       @@ ("full_name" :> rec["measure_full_name"])
       @@ ("category" :> rec["category_name"])

\* C9: for every sequence of data-dictionary records the fetch returns,
\* get_measure_list returns a table of the four columns id, short_name,
\* full_name, category with one row for each record whose categoryid is
\* HLTHOUT or RISKBEH, in upstream order.
C9_MeasureListForEveryResponse ==
    (op = "get_measure_list" /\ fetchOutcome = "ok" /\ pc \in {"returned", "raised"})
       => /\ pc = "returned"
          /\ result.columns = {"id", "short_name", "full_name", "category"}
          /\ result.rows =
                LET kept == SelectSeq(data, LAMBDA rec :
                               rec["categoryid"] \in {Str("HLTHOUT"), Str("RISKBEH")})
                IN [i \in 1..Len(kept) |-> CatalogueRow(kept[i])]

----------------------------------------------------------------------------
(* The claims about filter_by_measures, checked under SpecFilter.          *)

\* a row passes a criterion that was provided when its value is listed
Passes(r, crit, col) == crit.given => r[col].s \in crit.values

\* C3: filter_by_measures returns the rows of the input, in order, whose
\* short_question_text, category and measureid are members of each set
\* that was provided, the empty set included; an omitted criterion does not
\* constrain the result.
C3_FilterKeepsExactlyMembers ==
    (op = "filter_by_measures" /\ pc = "returned")
       => heap[resRef].rows =
             SelectSeq(input.rows, LAMBDA r :
                /\ Passes(r, criteria.measures, "short_question_text")
                /\ Passes(r, criteria.categories, "category")
                /\ Passes(r, criteria.measure_ids, "measureid"))

\* C4: with measures = [m] for a measure id m of a row of the table, and no
\* other criterion, the result is not empty and its measureid values are
\* exactly {m}.
C4_MeasuresAcceptsIds ==
    (/\ op = "filter_by_measures"
     /\ pc = "returned"
     /\ criteria.measures.given
     /\ Cardinality(criteria.measures.values) = 1
     /\ ~criteria.categories.given
     /\ ~criteria.measure_ids.given
     /\ \E i \in 1..Len(input.rows) : input.rows[i]["measureid"].s \in criteria.measures.values)
       => /\ heap[resRef].rows # <<>>
          /\ {heap[resRef].rows[i]["measureid"].s : i \in 1..Len(heap[resRef].rows)}
                = criteria.measures.values

\* C10: with the three criteria omitted the table returned is a copy: once
\* the caller has modified it, the table passed in is as it was.
C10_NoCriteriaReturnsCopy ==
    (/\ op = "filter_by_measures"
     /\ pc = "mutated"
     /\ ~criteria.measures.given
     /\ ~criteria.categories.given
     /\ ~criteria.measure_ids.given)
       => heap[dfRef] = input

----------------------------------------------------------------------------
(* The claims about get_correlation, checked under SpecCorr.               *)

\* the value of measure m in the rows of t whose column col is k (the mean,
\* when there are several)
ValuesOf(t, col, k, m) ==
    SelectSeq(t.rows, LAMBDA r :
       r[col] = k /\ r["measureid"] = Str(m) /\ r["data_value"].t = "num")

ValueOf(t, col, k, m) ==
    Rat(SeqSum([i \in 1..Len(ValuesOf(t, col, k, m)) |->
                  ValuesOf(t, col, k, m)[i]["data_value"].n]),
        Len(ValuesOf(t, col, k, m)))

\* the values of col for which t has a value of x and a value of y
Paired(t, col, x, y) ==
    {k \in {t.rows[i][col] : i \in 1..Len(t.rows)} :
        ValuesOf(t, col, k, x) # <<>> /\ ValuesOf(t, col, k, y) # <<>>}

\* C5: for distinct measure ids x and y, sample_size is the number of
\* counties (location identifiers) with a data_value for both, and mean_x
\* and mean_y are the means over those counties; counties that share a
\* locationname are not merged.
C5_SampleIsCountiesWithBoth ==
    (op = "get_correlation" /\ pc = "returned" /\ corrArgs[1] # corrArgs[2])
       => LET x == corrArgs[1].s
              y == corrArgs[2].s
              both == Paired(input, "locationid", x, y)
          IN /\ result.sample_size = Cardinality(both)
             /\ result.mean_x = Mean(both, [k \in both |-> ValueOf(input, "locationid", k, x)])
             /\ result.mean_y = Mean(both, [k \in both |-> ValueOf(input, "locationid", k, y)])

\* fewer than two paired locations, or a series without variance; the
\* locations are those of the pivot (locationname)
Degenerate(t, x, y) ==
    LET both == Paired(t, "locationname", x, y)
    IN \/ Cardinality(both) < 2
       \/ \A a, b \in both : ValueOf(t, "locationname", a, x) = ValueOf(t, "locationname", b, x)
       \/ \A a, b \in both : ValueOf(t, "locationname", a, y) = ValueOf(t, "locationname", b, y)

\* C6: for string ids x and y, when fewer than two locations have both
\* values or a series has no variance, get_correlation returns a result
\* with a NaN coefficient and the number of paired locations as
\* sample_size, and does not raise; a table without rows for x or for y,
\* or without rows, included.
C6_DegenerateReturnsNaN ==
    (/\ op = "get_correlation"
     /\ pc \in {"returned", "raised"}
     /\ corrArgs[1].t = "str"
     /\ corrArgs[2].t = "str"
     /\ Degenerate(input, corrArgs[1].s, corrArgs[2].s))
       => /\ pc = "returned"
          /\ result.corr_coef.nan
          /\ result.sample_size =
                Cardinality(Paired(input, "locationname", corrArgs[1].s, corrArgs[2].s))

====
